---------------------------- MODULE Spec2Model ----------------------------
(***************************************************************************)
(* Model of the Distill CLI (src/src/main.rs): the job pipeline of main,   *)
(* the output-type resolution, the bucket resolution, bucket_region and    *)
(* parse_summary_sections.                                                 *)
(*                                                                         *)
(* Text (file names, summary text) is a sequence of one-character strings, *)
(* so that splitting into lines, lower-casing, substring search, trimming  *)
(* and extension extraction are computed, not assumed.                     *)
(***************************************************************************)
EXTENDS Integers, Sequences, FiniteSets, Bags, TLC

VARIABLES
    pc,                     \* position of main
    settings_ok,            \* environment: ./config.toml can be loaded
    s3_bucket_name,         \* settings "aws.s3_bucket_name" ("" when unset)
    slack_webhook_endpoint, \* settings "slack.webhook_endpoint" ("" when unset)
    input_audio_file,       \* Opt::input_audio_file, with what the disk holds there
    output_type,            \* Opt::output_type, an Option
    output_filename,        \* Opt::output_filename, an Option
    delete_s3_object,       \* Opt::delete_s3_object
    actual_output_type,     \* Option: set once the output type is resolved
    resp,                   \* result of list_buckets
    bucket_name,            \* the destination bucket
    selection,              \* Option: index returned by the prompt
    location_resp,          \* Option: the constraint get_bucket_location reported
    region,                 \* Option: region of the regional client
    summarized_text,        \* text returned by summarize_text
    rendered,               \* the match on actual_output_type ran to its end
    written,                \* Option: the file a file sink wrote
    payload,                \* Option: the sections sent to the webhook
    calls,                  \* collaborator calls issued so far, in order
    console,                \* messages printed so far
    result                  \* "running", "Ok", or the error main returned

vars == <<pc, settings_ok, s3_bucket_name, slack_webhook_endpoint,
          input_audio_file, output_type, output_filename, delete_s3_object,
          actual_output_type, resp, bucket_name, selection,
          location_resp, region, summarized_text, rendered, written, payload,
          calls, console, result>>

---------------------------------------------------------------------------
(* Bounds of the model *)

\* longest bucket listing returned by list_buckets
MaxBuckets == 2
\* most lines of an enumerated summary text
MaxLines == 3

---------------------------------------------------------------------------
(* Option<T>: None is the empty sequence, Some(x) the one-element sequence *)

None == <<>>
Some(x) == <<x>>
IsSome(o) == Len(o) = 1
Unwrap(o) == o[1]

---------------------------------------------------------------------------
(* Characters and strings *)

\* char::is_whitespace, on the characters the model uses
IsWhitespace(c) == c \in {" ", "\t", "\n", "\r"}

\* char::to_lowercase, on the characters the model uses
LowerChar(c) ==
    CASE c = "A" -> "a" [] c = "C" -> "c" [] c = "D" -> "d" [] c = "E" -> "e" [] c = "F" -> "f"
      [] c = "I" -> "i" [] c = "K" -> "k" [] c = "M" -> "m" [] c = "N" -> "n"
      [] c = "O" -> "o" [] c = "P" -> "p" [] c = "S" -> "s" [] c = "T" -> "t"
      [] c = "X" -> "x" [] c = "Y" -> "y"
      [] OTHER -> c

\* str::to_lowercase
to_lowercase(s) == [i \in 1..Len(s) |-> LowerChar(s[i])]

\* str::contains(pattern)
contains(s, pat) ==
    \E i \in 1..(Len(s) - Len(pat) + 1) : SubSeq(s, i, i + Len(pat) - 1) = pat

RECURSIVE trim_start(_)
\* str::trim_start
trim_start(s) ==
    IF s # <<>> /\ IsWhitespace(Head(s)) THEN trim_start(Tail(s)) ELSE s

RECURSIVE trim_end(_)
\* str::trim_end
trim_end(s) ==
    IF s # <<>> /\ IsWhitespace(s[Len(s)])
    THEN trim_end(SubSeq(s, 1, Len(s) - 1))
    ELSE s

\* str::trim
trim(s) == trim_end(trim_start(s))

RECURSIVE SplitInclusive(_, _, _)
\* str::split_inclusive('\n'): pieces that each end with the terminator,
\* except possibly the last; no empty last piece
SplitInclusive(s, i, cur) ==
    IF i > Len(s) THEN (IF cur = <<>> THEN <<>> ELSE <<cur>>)
    ELSE IF s[i] = "\n"
         THEN <<Append(cur, s[i])>> \o SplitInclusive(s, i + 1, <<>>)
         ELSE SplitInclusive(s, i + 1, Append(cur, s[i]))

\* the map closure of str::lines: strip one "\n", then one "\r" before it
StripLineEnding(piece) ==
    IF piece # <<>> /\ piece[Len(piece)] = "\n"
    THEN LET l == SubSeq(piece, 1, Len(piece) - 1)
         IN  IF l # <<>> /\ l[Len(l)] = "\r"
             THEN SubSeq(l, 1, Len(l) - 1)
             ELSE l
    ELSE piece

\* str::lines
lines(s) ==
    LET pieces == SplitInclusive(s, 1, <<>>)
    IN  [i \in 1..Len(pieces) |-> StripLineEnding(pieces[i])]

---------------------------------------------------------------------------
(* parse_summary_sections, main.rs 400-438 *)

Chars(str) ==
    CASE str = "key points"  -> <<"k","e","y"," ","p","o","i","n","t","s">>
      [] str = "summary"     -> <<"s","u","m","m","a","r","y">>
      [] str = "action item" -> <<"a","c","t","i","o","n"," ","i","t","e","m">>
      [] str = "next step"   -> <<"n","e","x","t"," ","s","t","e","p">>
      [] str = "md"          -> <<"m","d">>
      [] str = "txt"         -> <<"t","x","t">>
      [] str = "doc"         -> <<"d","o","c">>
      [] str = "docx"        -> <<"d","o","c","x">>

\* the first condition of the loop body (412-413)
IsSummaryHeader(line) ==
    \/ contains(to_lowercase(line), Chars("key points"))
    \/ contains(to_lowercase(line), Chars("summary"))

\* the second condition (416-417)
IsActionHeader(line) ==
    \/ contains(to_lowercase(line), Chars("action item"))
    \/ contains(to_lowercase(line), Chars("next step"))

\* the third condition (420)
IsBlankEmptyOnly(line) == line = <<>>
IsBlank(line) == trim(line) = <<>>

\* the match on current_section (425-429): the line and a newline are pushed
\* to one buffer; st is <<summary, action_items, rest, current_section>>
PushLineBoth(st, line) ==
    CASE st[4] = "summary" -> <<st[1] \o line \o <<"\n">>, st[2], st[3], st[4]>>
      [] st[4] = "action"  -> <<st[1] \o line \o <<"\n">>,
                                st[2] \o line \o <<"\n">>, st[3], st[4]>>
      [] OTHER             -> <<st[1], st[2], st[3] \o line \o <<"\n">>, st[4]>>
PushLine(st, line) ==
    CASE st[4] = "summary" -> <<st[1] \o line \o <<"\n">>, st[2], st[3], st[4]>>
      [] st[4] = "action"  -> <<st[1], st[2] \o line \o <<"\n">>, st[3], st[4]>>
      [] OTHER             -> <<st[1], st[2], st[3] \o line \o <<"\n">>, st[4]>>

\* one iteration of the for loop (410-430)
ClassifyLineActionFirst(st, line) ==
    IF IsActionHeader(line) THEN <<st[1], st[2], st[3], "action">>
    ELSE IF IsSummaryHeader(line) THEN <<st[1], st[2], st[3], "summary">>
    ELSE IF IsBlank(line) THEN st
    ELSE PushLine(st, line)
ClassifyLine(st, line) ==
    IF IsSummaryHeader(line) THEN <<st[1], st[2], st[3], "summary">>
    ELSE IF IsActionHeader(line) THEN <<st[1], st[2], st[3], "action">>
    ELSE IF IsBlank(line) THEN st
    ELSE PushLine(st, line)

RECURSIVE ClassifyLoop(_, _, _)
\* the for loop over the collected lines
ClassifyLoop(st, ls, i) ==
    IF i > Len(ls) THEN st
    ELSE ClassifyLoop(ClassifyLine(st, ls[i]), ls, i + 1)

\* the whole function: (summary, action_items, rest), each trimmed
parse_summary_sections(text) ==
    LET st == ClassifyLoop(<<<<>>, <<>>, <<>>, "">>, lines(text), 1)
    IN  <<trim(st[1]), trim(st[2]), trim(st[3])>>

---------------------------------------------------------------------------
(* OutputType and the output-type resolution, main.rs 50-85 and 109-135 *)

OutputTypes == {"Terminal", "Text", "Word", "Markdown", "Slack"}

RECURSIVE LastIndexOf(_, _)
\* index of the last occurrence of character c in s, 0 if there is none
LastIndexOf(s, c) ==
    IF s = <<>> THEN 0
    ELSE IF s[Len(s)] = c THEN Len(s)
    ELSE LastIndexOf(SubSeq(s, 1, Len(s) - 1), c)

\* Path::file_name, for paths that do not end in a separator or a "."
\* component: the part after the last "/", None when it is ".."
file_name(path) ==
    LET name == SubSeq(path, LastIndexOf(path, "/") + 1, Len(path))
    IN  IF name = <<>> \/ name = <<".", ".">> THEN None ELSE Some(name)

\* Path::extension: the part of the file name after its last ".", None when
\* there is no "." or the only "." is the first character
extension(path) ==
    IF ~IsSome(file_name(path)) THEN None
    ELSE LET name == Unwrap(file_name(path))
             dot  == LastIndexOf(name, ".")
         IN  IF dot <= 1 THEN None
             ELSE Some(SubSeq(name, dot + 1, Len(name)))

\* OutputType::from_filename (72-84)
from_filenameCaseSensitive(filename) ==
    LET ext == extension(filename)
    IN  IF ext = Some(Chars("md")) THEN Some("Markdown")
        ELSE IF ext = Some(Chars("txt")) THEN Some("Text")
        ELSE IF ext \in {Some(Chars("doc")), Some(Chars("docx"))} THEN Some("Word")
        ELSE None
from_filename(filename) ==
    LET ext == extension(filename)
        low == IF IsSome(ext) THEN Some(to_lowercase(Unwrap(ext))) ELSE None
    IN  IF low = Some(Chars("md")) THEN Some("Markdown")
        ELSE IF low = Some(Chars("txt")) THEN Some("Text")
        ELSE IF low \in {Some(Chars("doc")), Some(Chars("docx"))} THEN Some("Word")
        ELSE None

\* the arms of the inner match that bail (119-120)
FilenameForbiddenNever(explicit_type) == FALSE
FilenameForbidden(explicit_type) == explicit_type \in {"Terminal", "Slack"}

\* the match on (&output_filename, output_type) (109-135): ok is FALSE when
\* main bails, type is actual_output_type, warn the warning printed
ResolveOutputTypeInferredWins(filename, type) ==
    IF IsSome(filename) /\ IsSome(from_filename(Unwrap(filename)))
    THEN [ok |-> ~(IsSome(type) /\ FilenameForbidden(Unwrap(type))),
          type |-> Unwrap(from_filename(Unwrap(filename))),
          warn |-> IF IsSome(type) /\ from_filename(Unwrap(filename)) # type
                   THEN {"warn-extension-mismatch"} ELSE {}]
    ELSE IF IsSome(filename) /\ ~IsSome(type)
    THEN [ok |-> TRUE, type |-> "Text", warn |-> {"warn-cannot-infer"}]
    ELSE IF IsSome(type)
    THEN [ok |-> ~(IsSome(filename) /\ FilenameForbidden(Unwrap(type))),
          type |-> Unwrap(type), warn |-> {}]
    ELSE [ok |-> TRUE, type |-> "Terminal", warn |-> {}]
ResolveOutputType(filename, type) ==
    IF IsSome(filename) /\ ~IsSome(type) THEN
        LET inferred == from_filename(Unwrap(filename))
        IN  IF IsSome(inferred)
            THEN [ok |-> TRUE, type |-> Unwrap(inferred), warn |-> {}]
            ELSE [ok |-> TRUE, type |-> "Text", warn |-> {"warn-cannot-infer"}]
    ELSE IF IsSome(filename) /\ IsSome(type) THEN
        IF FilenameForbidden(Unwrap(type))
        THEN [ok |-> FALSE, type |-> Unwrap(type), warn |-> {}]
        ELSE LET inferred == from_filename(Unwrap(filename))
             IN  [ok |-> TRUE, type |-> Unwrap(type),
                  warn |-> IF IsSome(inferred) /\ Unwrap(inferred) # Unwrap(type)
                           THEN {"warn-extension-mismatch"} ELSE {}]
    ELSE IF IsSome(type) THEN [ok |-> TRUE, type |-> Unwrap(type), warn |-> {}]
    ELSE [ok |-> TRUE, type |-> "Terminal", warn |-> {}]

---------------------------------------------------------------------------
(* bucket_region, main.rs 452-468 *)

\* the provider's default region
DefaultRegion == "us-east-1"

\* the final if (463-467) on the location constraint of the response
RegionOfConstraintVerbatim(location_constraint) == location_constraint
RegionOfConstraint(location_constraint) ==
    IF location_constraint = "" THEN DefaultRegion ELSE location_constraint

---------------------------------------------------------------------------
(* Inputs: command line, configuration file, disk and remote services *)

\* values of --output-filename
FileNames ==
    { <<"o", ".", "m", "d">>,
      <<"o", ".", "T", "X", "T">>,
      <<"o", ".", "d", "o", "c", "x">>,
      <<"o", ".", "D", "O", "C">>,
      <<"o", ".", "p", "d", "f">>,
      <<"d", ".", "m", "d", "/", "o">>,
      <<".", "m", "d">>,
      <<"o">> }

\* values of --delete-s3-object
DeleteFlags == {"n", "y", "Y"}

\* values of --input-audio-file with what the disk holds there; has_file_name
\* is FALSE for a path ending in "..", where Path::file_name is None
InputFiles ==
    { [path |-> "rec.mp3",  exists |-> TRUE,  has_file_name |-> TRUE],
      [path |-> "gone.mp3", exists |-> FALSE, has_file_name |-> TRUE],
      [path |-> "..",       exists |-> TRUE,  has_file_name |-> FALSE] }

\* bucket names of the account; list_buckets maps a missing name to ""
BucketNames == {"", "b1", "b2"}

\* values of aws.s3_bucket_name in config.toml
ConfiguredBuckets == {"", "b1", "b9"}

\* values of slack.webhook_endpoint in config.toml
Endpoints == {"", "https://hook"}

RECURSIVE SeqsUpTo(_, _)
\* the sequences over S of length at most n
SeqsUpTo(S, n) ==
    IF n = 0 THEN {<<>>}
    ELSE LET prev == SeqsUpTo(S, n - 1)
         IN  prev \cup {Append(q, x) : q \in prev, x \in S}

\* results of list_buckets (440-450)
Listings ==
    {[ok |-> FALSE, val |-> <<>>]}
        \cup {[ok |-> TRUE, val |-> v] : v \in SeqsUpTo(BucketNames, MaxBuckets)}

\* location constraints get_bucket_location reports
Constraints == {None, Some(""), Some("eu-west-1")}

\* texts of the summarizer
TextExample ==
    <<"S","u","m","m","a","r","y","\n","F","o","o","\n",
      "A","c","t","i","o","n"," ","I","t","e","m","s","\n",
      "B","a","r","\n","B","a","z">>
TextPlain == <<"F","o","o","\n","\n","B","a","r","\n">>
SummaryTexts == {TextExample, TextPlain}

\* the default file name of a file sink (249, 275, 302)
DefaultFilenameText(type) == <<"s","u","m","m","a","r","y",".","t","x","t">>
DefaultFilename(type) ==
    CASE type = "Word"     -> <<"s","u","m","m","a","r","y",".","d","o","c","x">>
      [] type = "Text"     -> <<"s","u","m","m","a","r","y",".","t","x","t">>
      [] type = "Markdown" -> <<"s","u","m","m","a","r","y",".","m","d">>

---------------------------------------------------------------------------
(* The job: main, 88-378 *)

\* a collaborator call: the operation, the client it is sent through, the
\* bucket it names and whether it succeeded
Call(op, client, bucket, ok) ==
    [op |-> op, client |-> client, bucket |-> bucket, ok |-> ok]

\* main returns: Ok(()), an Err (bail!, ?), or a panic
Return(err) ==
    /\ pc' = "done"
    /\ result' = err

Init ==
    /\ pc = "start"
    /\ settings_ok \in BOOLEAN
    /\ s3_bucket_name \in ConfiguredBuckets
    /\ slack_webhook_endpoint \in Endpoints
    /\ input_audio_file \in InputFiles
    /\ output_type \in {None} \cup {Some(t) : t \in OutputTypes}
    /\ output_filename \in {None} \cup {Some(f) : f \in FileNames}
    /\ delete_s3_object \in DeleteFlags
    /\ actual_output_type = None
    /\ resp = [ok |-> FALSE, val |-> <<>>]
    /\ bucket_name = ""
    /\ selection = None
    /\ location_resp = None
    /\ region = None
    /\ summarized_text = <<>>
    /\ rendered = FALSE
    /\ written = None
    /\ payload = None
    /\ calls = <<>>
    /\ console = {}
    /\ result = "running"

\* 90-98: the configuration file is loaded
LoadSettings ==
    /\ pc = "start"
    /\ IF settings_ok
       THEN pc' = "resolve_output" /\ UNCHANGED result
       ELSE Return("Err:settings")
    /\ UNCHANGED <<settings_ok, s3_bucket_name, slack_webhook_endpoint,
                   input_audio_file, output_type, output_filename,
                   delete_s3_object, actual_output_type, resp, bucket_name,
                   selection, location_resp, region, summarized_text, rendered, written,
                   payload, calls, console>>

\* 100-135: the options are taken apart and the output type is resolved
ResolveOutput ==
    /\ pc = "resolve_output"
    /\ LET r == ResolveOutputType(output_filename, output_type)
       IN  IF r.ok
           THEN /\ actual_output_type' = Some(r.type)
                /\ console' = console \cup r.warn
                /\ pc' = "list"
                /\ UNCHANGED result
           ELSE /\ Return("Err:filename-with-" \o r.type)
                /\ UNCHANGED <<actual_output_type, console>>
    /\ UNCHANGED <<settings_ok, s3_bucket_name, slack_webhook_endpoint,
                   input_audio_file, output_type, output_filename,
                   delete_s3_object, resp, bucket_name, selection, location_resp, region,
                   summarized_text, rendered, written, payload, calls>>

\* 137-143: the buckets are listed through the first client
ListBuckets ==
    /\ pc = "list"
    /\ \E r \in Listings :
        /\ resp' = r
        /\ calls' = Append(calls, Call("list_buckets", "s3_client", "", r.ok))
    /\ pc' = "check_configured"
    /\ UNCHANGED <<settings_ok, s3_bucket_name, slack_webhook_endpoint,
                   input_audio_file, output_type, output_filename,
                   delete_s3_object, actual_output_type, bucket_name,
                   selection, location_resp, region, summarized_text, rendered, written,
                   payload, console, result>>

\* the find of 146-150
ConfiguredFoundAlways(r, name) == TRUE
ConfiguredFound(r, name) ==
    r.ok /\ \E i \in 1..Len(r.val) : r.val[i] = name

\* 145-160: a configured bucket is used when the listing holds it
CheckConfigured ==
    /\ pc = "check_configured"
    /\ IF s3_bucket_name # ""
       THEN IF ConfiguredFound(resp, s3_bucket_name)
            THEN /\ console' = console \cup {"bucket-name"}
                 /\ bucket_name' = s3_bucket_name
            ELSE /\ console' = console \cup {"configured-not-found"}
                 /\ UNCHANGED bucket_name
       ELSE UNCHANGED <<console, bucket_name>>
    /\ pc' = "choose"
    /\ UNCHANGED <<settings_ok, s3_bucket_name, slack_webhook_endpoint,
                   input_audio_file, output_type, output_filename,
                   delete_s3_object, actual_output_type, resp, selection,
                   location_resp, region, summarized_text, rendered, written, payload,
                   calls, result>>

\* 162-178: without a bucket the user is asked to choose one of the listing;
\* interact can fail (no terminal, no items), and its error is returned; an
\* index it returned for an empty listing makes bucket_names[selection]
\* panic before bucket_name is assigned
ChooseBucketNoListError ==
    /\ pc = "choose"
    /\ IF bucket_name = "" /\ resp.ok
       THEN \/ /\ calls' = Append(calls, Call("prompt_choice", "-", "", FALSE))
               /\ Return("Err:prompt")
               /\ UNCHANGED <<selection, bucket_name>>
            \/ /\ resp.val = <<>>
               /\ calls' = Append(calls, Call("prompt_choice", "-", "", TRUE))
               /\ Return("Panic:index-out-of-bounds")
               /\ UNCHANGED <<selection, bucket_name>>
            \/ \E i \in 1..Len(resp.val) :
               /\ calls' = Append(calls, Call("prompt_choice", "-", "", TRUE))
               /\ selection' = Some(i)
               /\ bucket_name' = resp.val[i]
               /\ pc' = "validate"
               /\ UNCHANGED result
       ELSE /\ pc' = "validate"
            /\ UNCHANGED <<selection, bucket_name, calls, result>>
    /\ UNCHANGED <<settings_ok, s3_bucket_name, slack_webhook_endpoint,
                   input_audio_file, output_type, output_filename,
                   delete_s3_object, actual_output_type, resp, location_resp,
                   region, summarized_text, rendered, written, payload,
                   console>>
ChooseBucket ==
    /\ pc = "choose"
    /\ IF bucket_name = ""
       THEN IF resp.ok
            THEN \/ /\ calls' = Append(calls, Call("prompt_choice", "-", "", FALSE))
                    /\ Return("Err:prompt")
                    /\ UNCHANGED <<selection, bucket_name, console>>
                 \/ /\ resp.val = <<>>
                    /\ calls' = Append(calls, Call("prompt_choice", "-", "", TRUE))
                    /\ Return("Panic:index-out-of-bounds")
                    /\ UNCHANGED <<selection, bucket_name, console>>
                 \/ \E i \in 1..Len(resp.val) :
                    /\ calls' = Append(calls, Call("prompt_choice", "-", "", TRUE))
                    /\ selection' = Some(i)
                    /\ bucket_name' = resp.val[i]
                    /\ pc' = "validate"
                    /\ UNCHANGED <<console, result>>
            ELSE /\ console' = console \cup {"list-error"}
                 /\ Return("Err:bucket-list")
                 /\ UNCHANGED <<selection, bucket_name, calls>>
       ELSE /\ pc' = "validate"
            /\ UNCHANGED <<selection, bucket_name, calls, console, result>>
    /\ UNCHANGED <<settings_ok, s3_bucket_name, slack_webhook_endpoint,
                   input_audio_file, output_type, output_filename,
                   delete_s3_object, actual_output_type, resp, location_resp, region,
                   summarized_text, rendered, written, payload>>

\* the condition of 180
BucketMissingNever(name) == FALSE
BucketMissing(name) == name = ""

\* 180-182: an empty bucket name is refused
ValidateBucket ==
    /\ pc = "validate"
    /\ IF BucketMissing(bucket_name)
       THEN Return("Err:no-valid-bucket")
       ELSE pc' = "region" /\ UNCHANGED result
    /\ UNCHANGED <<settings_ok, s3_bucket_name, slack_webhook_endpoint,
                   input_audio_file, output_type, output_filename,
                   delete_s3_object, actual_output_type, resp, bucket_name,
                   selection, location_resp, region, summarized_text, rendered, written,
                   payload, calls, console>>

\* 184-195 with bucket_region (452-468): the bucket is located through the
\* first client and the regional client is made for its region
BucketRegion ==
    /\ pc = "region"
    /\ \/ /\ calls' = Append(calls, Call("locate_bucket", "s3_client", bucket_name, FALSE))
          /\ Return("Err:locate")
          /\ UNCHANGED <<location_resp, region>>
       \/ \E c \in Constraints :
          /\ calls' = Append(calls, Call("locate_bucket", "s3_client", bucket_name, TRUE))
          /\ location_resp' = c
          /\ IF IsSome(c)
             THEN /\ region' = Some(RegionOfConstraint(Unwrap(c)))
                  /\ pc' = "path"
                  /\ UNCHANGED result
             ELSE /\ Return("Err:no-location-constraint")
                  /\ UNCHANGED region
    /\ UNCHANGED <<settings_ok, s3_bucket_name, slack_webhook_endpoint,
                   input_audio_file, output_type, output_filename,
                   delete_s3_object, actual_output_type, resp, bucket_name,
                   selection, summarized_text, rendered, written, payload,
                   console>>

\* 197-215: the key is taken from the path, the path is checked and read
CheckPath ==
    /\ pc = "path"
    /\ IF ~input_audio_file.has_file_name THEN Return("Panic:file-name")
       ELSE IF ~input_audio_file.exists THEN Return("Err:path-does-not-exist")
       ELSE \/ Return("Err:loading-file")
            \/ pc' = "upload" /\ UNCHANGED result
    /\ UNCHANGED <<settings_ok, s3_bucket_name, slack_webhook_endpoint,
                   input_audio_file, output_type, output_filename,
                   delete_s3_object, actual_output_type, resp, bucket_name,
                   selection, location_resp, region, summarized_text, rendered, written,
                   payload, calls, console>>

\* a stage that fails returns its error from main (the ? operator)
StageAbortsNever(ok) == FALSE
StageAborts(ok) == ~ok

\* 217-226: the file is put into the bucket through the regional client
Upload ==
    /\ pc = "upload"
    /\ \E ok \in BOOLEAN :
        /\ calls' = Append(calls, Call("upload", "regional_s3_client", bucket_name, ok))
        /\ IF StageAborts(ok)
           THEN Return("Err:upload")
           ELSE pc' = "transcribe" /\ UNCHANGED result
    /\ UNCHANGED <<settings_ok, s3_bucket_name, slack_webhook_endpoint,
                   input_audio_file, output_type, output_filename,
                   delete_s3_object, actual_output_type, resp, bucket_name,
                   selection, location_resp, region, summarized_text, rendered, written,
                   payload, console>>

\* 232-239: the staged object is transcribed
Transcribe ==
    /\ pc = "transcribe"
    /\ \E ok \in BOOLEAN :
        /\ calls' = Append(calls, Call("transcribe", "-", bucket_name, ok))
        /\ IF StageAborts(ok)
           THEN Return("Err:transcribe")
           ELSE pc' = "summarize" /\ UNCHANGED result
    /\ UNCHANGED <<settings_ok, s3_bucket_name, slack_webhook_endpoint,
                   input_audio_file, output_type, output_filename,
                   delete_s3_object, actual_output_type, resp, bucket_name,
                   selection, location_resp, region, summarized_text, rendered, written,
                   payload, console>>

\* 242-243: the transcription is summarized
Summarize ==
    /\ pc = "summarize"
    /\ \/ /\ calls' = Append(calls, Call("summarize", "-", "", FALSE))
          /\ Return("Err:summarize")
          /\ UNCHANGED summarized_text
       \/ \E t \in SummaryTexts :
          /\ calls' = Append(calls, Call("summarize", "-", "", TRUE))
          /\ summarized_text' = t
          /\ pc' = "render"
          /\ UNCHANGED result
    /\ UNCHANGED <<settings_ok, s3_bucket_name, slack_webhook_endpoint,
                   input_audio_file, output_type, output_filename,
                   delete_s3_object, actual_output_type, resp, bucket_name,
                   selection, location_resp, region, rendered, written, payload, console>>

\* the file name of a file sink (247-250, 273-276, 300-303)
SinkFilename(type) ==
    IF IsSome(output_filename) THEN Unwrap(output_filename)
    ELSE DefaultFilename(type)

\* a file sink: the file is created and written; either can fail, and the
\* error is returned from main
RenderFile(type, create_err, write_err) ==
    /\ pc = "render"
    /\ actual_output_type = Some(type)
    /\ \/ /\ calls' = Append(calls, Call("write_file", "-", "", FALSE))
          /\ \/ Return(create_err)
             \/ Return(write_err)
          /\ UNCHANGED <<rendered, written, console>>
       \/ /\ calls' = Append(calls, Call("write_file", "-", "", TRUE))
          /\ written' = Some([name |-> SinkFilename(type), type |-> type])
          /\ console' = console \cup {"done", "written-to-file"}
          /\ rendered' = TRUE
          /\ pc' = "cleanup"
          /\ UNCHANGED result
    /\ UNCHANGED <<settings_ok, s3_bucket_name, slack_webhook_endpoint,
                   input_audio_file, output_type, output_filename,
                   delete_s3_object, actual_output_type, resp, bucket_name,
                   selection, location_resp, region, summarized_text, payload>>

\* 246-271
RenderWord == RenderFile("Word", "Err:creating-file", "Err:writing-word-document")

\* 272-292
RenderText == RenderFile("Text", "Err:creating-file", "Err:creating-file")

\* 299-320
RenderMarkdown == RenderFile("Markdown", "Err:creating-file", "Err:writing-markdown-file")

\* 293-298
RenderTerminal ==
    /\ pc = "render"
    /\ actual_output_type = Some("Terminal")
    /\ console' = console \cup {"done", "summary-printed", "transcription-printed"}
    /\ rendered' = TRUE
    /\ pc' = "cleanup"
    /\ UNCHANGED <<settings_ok, s3_bucket_name, slack_webhook_endpoint,
                   input_audio_file, output_type, output_filename,
                   delete_s3_object, actual_output_type, resp, bucket_name,
                   selection, location_resp, region, summarized_text, written, payload,
                   calls, result>>

\* the condition of 328
EndpointMissingNever(endpoint) == FALSE
EndpointMissing(endpoint) == endpoint = ""

\* outcomes of the post (343-362)
PostOutcomes == {"success", "status-not-success", "send-error"}

\* 321-364: without an endpoint the summary is printed; with one the
\* classified sections are posted, and a failed post is only reported
RenderSlackFailFast ==
    /\ pc = "render"
    /\ actual_output_type = Some("Slack")
    /\ IF EndpointMissing(slack_webhook_endpoint)
       THEN /\ console' = console \cup {"slack-not-configured", "summary-printed"}
            /\ rendered' = TRUE
            /\ pc' = "cleanup"
            /\ UNCHANGED <<payload, calls, result>>
       ELSE /\ payload' = Some(parse_summary_sections(summarized_text))
            /\ \E o \in PostOutcomes :
                /\ calls' = Append(calls, Call("post_notification", "-", "", o = "success"))
                /\ IF o = "success"
                   THEN /\ console' = console \cup {"slack-sent"}
                        /\ rendered' = TRUE
                        /\ pc' = "cleanup"
                        /\ UNCHANGED result
                   ELSE /\ console' = console \cup {"slack-failed", "error-sending-to-slack"}
                        /\ Return("Err:slack")
                        /\ UNCHANGED rendered
    /\ UNCHANGED <<settings_ok, s3_bucket_name, slack_webhook_endpoint,
                   input_audio_file, output_type, output_filename,
                   delete_s3_object, actual_output_type, resp, bucket_name,
                   selection, location_resp, region, summarized_text, written>>
RenderSlack ==
    /\ pc = "render"
    /\ actual_output_type = Some("Slack")
    /\ IF EndpointMissing(slack_webhook_endpoint)
       THEN /\ console' = console \cup {"slack-not-configured", "summary-printed"}
            /\ UNCHANGED <<payload, calls>>
       ELSE /\ payload' = Some(parse_summary_sections(summarized_text))
            /\ \E o \in PostOutcomes :
                /\ calls' = Append(calls, Call("post_notification", "-", "", o = "success"))
                /\ console' = console \cup
                      (IF o = "success" THEN {"slack-sent"}
                       ELSE {"slack-failed", "error-sending-to-slack"})
    /\ rendered' = TRUE
    /\ pc' = "cleanup"
    /\ UNCHANGED <<settings_ok, s3_bucket_name, slack_webhook_endpoint,
                   input_audio_file, output_type, output_filename,
                   delete_s3_object, actual_output_type, resp, bucket_name,
                   selection, location_resp, region, summarized_text, written, result>>

\* the condition of 368
DeleteRequestedAlways(flag) == TRUE
DeleteRequested(flag) == flag = "Y"

\* 367-377: the staged object is deleted through the first client when
\* asked for, and main returns Ok
Cleanup ==
    /\ pc = "cleanup"
    /\ IF DeleteRequested(delete_s3_object)
       THEN \E ok \in BOOLEAN :
            /\ calls' = Append(calls, Call("delete", "s3_client", bucket_name, ok))
            /\ IF ok THEN Return("Ok") ELSE Return("Err:delete")
       ELSE /\ Return("Ok")
            /\ UNCHANGED calls
    /\ UNCHANGED <<settings_ok, s3_bucket_name, slack_webhook_endpoint,
                   input_audio_file, output_type, output_filename,
                   delete_s3_object, actual_output_type, resp, bucket_name,
                   selection, location_resp, region, summarized_text, rendered, written,
                   payload, console>>

Next ==
    \/ LoadSettings
    \/ ResolveOutput
    \/ ListBuckets
    \/ CheckConfigured
    \/ ChooseBucket
    \/ ValidateBucket
    \/ BucketRegion
    \/ CheckPath
    \/ Upload
    \/ Transcribe
    \/ Summarize
    \/ RenderWord
    \/ RenderText
    \/ RenderTerminal
    \/ RenderMarkdown
    \/ RenderSlack
    \/ Cleanup

Spec == Init /\ [][Next]_vars

---------------------------------------------------------------------------
(* The classifier on its own: parse_summary_sections applied to every text *)
(* of at most MaxLines lines                                               *)

\* lines a summary text is made of: blank ones, content with and without
\* surrounding whitespace (one with a carriage return of its own), the
\* four kinds of header, and a line holding a header phrase of either kind
LinePool ==
    { <<>>,
      <<" ">>,
      <<"F","o","o">>,
      <<" ","B","a","r"," ">>,
      <<"B","a","z","\r">>,
      <<"S","u","m","m","a","r","y">>,
      <<"K","e","y"," ","p","o","i","n","t","s",":">>,
      <<"A","c","t","i","o","n"," ","I","t","e","m","s">>,
      <<"N","E","X","T"," ","S","T","E","P">>,
      <<"N","e","x","t"," ","s","t","e","p","s"," ","s","u","m","m","a","r","y">> }

\* line terminators
LineEndings == { <<"\n">>, <<"\r", "\n">> }

RECURSIVE JoinLines(_, _, _)
\* the lines ls joined by eol, with a final eol when trailing
JoinLines(ls, eol, trailing) ==
    IF ls = <<>> THEN <<>>
    ELSE IF Len(ls) = 1 THEN (IF trailing THEN ls[1] \o eol ELSE ls[1])
    ELSE ls[1] \o eol \o JoinLines(Tail(ls), eol, trailing)

\* the texts the classifier is checked on
ClassifierTexts ==
    {TextExample} \cup
    { JoinLines(ls, eol, trailing) :
        ls \in SeqsUpTo(LinePool, MaxLines), eol \in LineEndings,
        trailing \in BOOLEAN }

InitClassifier ==
    /\ pc = "classify"
    /\ settings_ok = TRUE
    /\ s3_bucket_name = ""
    /\ slack_webhook_endpoint = "https://hook"
    /\ input_audio_file = [path |-> "rec.mp3", exists |-> TRUE, has_file_name |-> TRUE]
    /\ output_type = Some("Slack")
    /\ output_filename = None
    /\ delete_s3_object = "n"
    /\ actual_output_type = Some("Slack")
    /\ resp = [ok |-> FALSE, val |-> <<>>]
    /\ bucket_name = ""
    /\ selection = None
    /\ location_resp = None
    /\ region = None
    /\ summarized_text \in ClassifierTexts
    /\ rendered = FALSE
    /\ written = None
    /\ payload = None
    /\ calls = <<>>
    /\ console = {}
    /\ result = "running"

\* 335: the summary text is classified
Classify ==
    /\ pc = "classify"
    /\ payload' = Some(parse_summary_sections(summarized_text))
    /\ pc' = "classified"
    /\ UNCHANGED <<settings_ok, s3_bucket_name, slack_webhook_endpoint,
                   input_audio_file, output_type, output_filename,
                   delete_s3_object, actual_output_type, resp, bucket_name,
                   selection, location_resp, region, summarized_text, rendered, written,
                   calls, console, result>>

NextClassifier == Classify

SpecClassifier == InitClassifier /\ [][NextClassifier]_vars

---------------------------------------------------------------------------
(* Properties of the job *)

\* the indices of the calls of operation op
CallsOf(op) == {i \in DOMAIN calls : calls[i].op = op}

NumCalls(op) == Cardinality(CallsOf(op))

\* main has returned an error or panicked
Failed == pc = "done" /\ result # "Ok"

\* the remote and interactive collaborators of the job
Collaborators ==
    {"list_buckets", "prompt_choice", "locate_bucket", "upload", "transcribe",
     "summarize", "post_notification", "delete"}

\* C1: if the input audio path does not exist on disk, no collaborator is
\* ever called (list_buckets, prompt_choice, locate_bucket, upload,
\* transcribe, summarize, post_notification, delete all have zero calls) and
\* the job does not succeed
C1_MissingPathNoCalls ==
    ~input_audio_file.exists =>
        /\ \A op \in Collaborators : NumCalls(op) = 0
        /\ pc = "done" => Failed

\* C2: a request with an output filename and explicit type Terminal or Slack
\* fails, and no remote call (list_buckets, locate_bucket, upload,
\* transcribe, summarize, post_notification, delete) is made in its run
C2_FilenameConflictFailsFast ==
    (IsSome(output_filename) /\ output_type \in {Some("Terminal"), Some("Slack")}) =>
        /\ \A op \in Collaborators \ {"prompt_choice"} : NumCalls(op) = 0
        /\ pc \in {"start", "resolve_output", "done"}
        /\ pc = "done" => Failed

C2_Witness ==
    /\ IsSome(output_filename)
    /\ output_type = Some("Slack")
    /\ result = "Err:filename-with-Slack"
    /\ calls = <<>>

\* the delete-after flag is set: y, in either case
FlagSet(flag) == flag \in {"y", "Y"}

\* C3: a delete call is issued only if the delete flag is set and only after
\* the render stage has finished without aborting the job: never with the
\* flag unset, never before rendering, never after a file write error
C3_DeleteOnlyAfterRender ==
    \A i \in CallsOf("delete") :
        /\ FlagSet(delete_s3_object)
        /\ rendered
        /\ \A j \in CallsOf("write_file") : j < i /\ calls[j].ok

C3_Witness ==
    /\ NumCalls("delete") = 1
    /\ IsSome(written)
    /\ delete_s3_object = "Y"

\* C4: with the delete-after flag y and every stage up to and including the
\* rendering successful, delete is called on the staged object before the
\* job is done
C4_DeleteWhenFlagIsY ==
    (delete_s3_object = "y" /\ rendered /\ pc = "done") =>
        \E i \in CallsOf("delete") : calls[i].bucket = bucket_name

\* the place of each collaborator call in the order of the stages
StageRank(op) ==
    CASE op = "list_buckets"      -> 1
      [] op = "prompt_choice"     -> 2
      [] op = "locate_bucket"     -> 3
      [] op = "upload"            -> 4
      [] op = "transcribe"        -> 5
      [] op = "summarize"         -> 6
      [] op = "write_file"        -> 7
      [] op = "post_notification" -> 7
      [] op = "delete"            -> 8

\* the calls are in the order of the stages, each stage calling at most once
InStageOrder ==
    \A i, j \in DOMAIN calls :
        i < j => StageRank(calls[i].op) < StageRank(calls[j].op)

\* C5 as stated: the stages are in the fixed order, each call is issued at
\* most once, and if any stage fails the job aborts with an error and no
\* later stage's call is issued
C5_AnyFailureAborts ==
    /\ InStageOrder
    /\ \A i \in DOMAIN calls :
        ~calls[i].ok => /\ i = Len(calls)
                        /\ pc = "done" => Failed

\* C5 amended: the stages are in the fixed order, each call is issued at most
\* once, and if any stage other than the notification post fails the job
\* aborts with an error and no later stage's call is issued; a failed
\* notification post is reported and does not abort the job
C5_FailureAbortsExceptPost ==
    /\ InStageOrder
    /\ \A i \in DOMAIN calls :
        (~calls[i].ok /\ calls[i].op # "post_notification") =>
            /\ i = Len(calls)
            /\ pc = "done" => Failed
    /\ \A i \in CallsOf("post_notification") :
        ~calls[i].ok =>
            /\ "error-sending-to-slack" \in console
            /\ pc \in {"cleanup", "done"}
            /\ (pc = "done" /\ \A j \in CallsOf("delete") : calls[j].ok) => result = "Ok"

C5_Witness ==
    /\ Len(calls) >= 4
    /\ calls[Len(calls)].op = "transcribe"
    /\ ~calls[Len(calls)].ok
    /\ result = "Err:transcribe"

\* the configured bucket name is one of the listed names
InListing == \E i \in DOMAIN resp.val : resp.val[i] = s3_bucket_name

\* C6: when the listing succeeds and the configured name is non-empty and
\* listed, it is the destination and the prompt is never invoked; when the
\* listing succeeds and the configured name is empty or not listed, the
\* prompt is invoked exactly once and the destination is the listed name at
\* the chosen index
C6_DestinationResolver ==
    resp.ok =>
        /\ (s3_bucket_name # "" /\ InListing) =>
              /\ NumCalls("prompt_choice") = 0
              /\ pc # "check_configured" => bucket_name = s3_bucket_name
        /\ (s3_bucket_name = "" \/ ~InListing) =>
              (pc \notin {"check_configured", "choose"} =>
                  /\ NumCalls("prompt_choice") = 1
                  /\ IsSome(selection) => bucket_name = resp.val[Unwrap(selection)])

C6_Witness ==
    /\ resp.ok
    /\ s3_bucket_name = "b9"
    /\ NumCalls("prompt_choice") = 1
    /\ selection = Some(2)
    /\ bucket_name = "b2"
    /\ pc = "region"

\* C7: whenever locate_bucket or upload has been called the bucket name is
\* non-empty; choosing a listed bucket whose name is empty makes the job fail
\* with neither call made
C7_NoEmptyBucket ==
    /\ \A i \in CallsOf("locate_bucket") \cup CallsOf("upload") :
          bucket_name # "" /\ calls[i].bucket # ""
    /\ (IsSome(selection) /\ bucket_name = "" /\ pc \notin {"choose", "validate"}) =>
          Failed /\ NumCalls("locate_bucket") = 0 /\ NumCalls("upload") = 0

C7_Witness ==
    /\ NumCalls("upload") = 1
    /\ IsSome(selection)
    /\ \E i \in DOMAIN resp.val : resp.val[i] = ""

\* C8: with the notification sink and no webhook endpoint the post is never
\* called, and when the other stages succeed the job ends successfully with
\* the summary printed and the warning issued
C8_SlackWithoutEndpoint ==
    (actual_output_type = Some("Slack") /\ slack_webhook_endpoint = "") =>
        /\ NumCalls("post_notification") = 0
        /\ (pc = "done" /\ NumCalls("summarize") = 1 /\ \A i \in DOMAIN calls : calls[i].ok) =>
              /\ result = "Ok"
              /\ {"slack-not-configured", "summary-printed"} \subseteq console

C8_Witness ==
    /\ actual_output_type = Some("Slack")
    /\ slack_webhook_endpoint = ""
    /\ result = "Ok"
    /\ "slack-not-configured" \in console
    /\ "summary-printed" \in console

---------------------------------------------------------------------------
(* Properties of the classifier *)

\* a line that is empty or holds only whitespace
BlankLine(l) == \A i \in DOMAIN l : IsWhitespace(l[i])

\* a line that holds, in any case, one of the four header phrases
HeaderLine(l) ==
    \E h \in {"key points", "summary", "action item", "next step"} :
        contains(to_lowercase(l), Chars(h))

\* the elements of a sequence
Range(q) == {q[i] : i \in DOMAIN q}

\* how often x occurs in the sequence q
CountIn(q, x) == Cardinality({i \in DOMAIN q : q[i] = x})

\* each line with its leading and trailing whitespace removed
Trimmed(ls) == [i \in DOMAIN ls |-> trim(ls[i])]

ContentLine(l) == ~BlankLine(l) /\ ~HeaderLine(l)

NonBlankLine(l) == ~BlankLine(l)

\* the input lines that are neither blank nor a header, in order, trimmed
ContentLines == Trimmed(SelectSeq(lines(summarized_text), ContentLine))

\* the input lines that are not blank, in order, trimmed
NonBlankLines == Trimmed(SelectSeq(lines(summarized_text), NonBlankLine))

\* the lines of one output buffer: what the newlines pushed by the
\* classifier separate
BufferLines(b) ==
    LET pieces == SplitInclusive(Unwrap(payload)[b], 1, <<>>)
    IN  [i \in DOMAIN pieces |->
            IF pieces[i][Len(pieces[i])] = "\n"
            THEN SubSeq(pieces[i], 1, Len(pieces[i]) - 1)
            ELSE pieces[i]]

\* the lines of the three output buffers, one after the other, trimmed
OutputLines == Trimmed(BufferLines(1) \o BufferLines(2) \o BufferLines(3))

\* C9: no blank line is in any of the three buffers, and the lines of the
\* three buffers together are exactly the non-blank, non-header input lines,
\* each as often as in the input: verbatim inside a buffer, and up to the
\* trimming at the two ends of a buffer
C9_ClassifierPartition ==
    pc = "classified" =>
        /\ \A b \in 1..3 : \A i \in DOMAIN BufferLines(b) : ~BlankLine(BufferLines(b)[i])
        /\ \A b \in 1..3 : \A i \in 2..(Len(BufferLines(b)) - 1) :
              BufferLines(b)[i] \in Range(SelectSeq(lines(summarized_text), ContentLine))
        /\ \A x \in Range(OutputLines) \cup Range(ContentLines) :
              CountIn(OutputLines, x) = CountIn(ContentLines, x)

C9_Witness ==
    /\ pc = "classified"
    /\ Len(lines(summarized_text)) = MaxLines
    /\ \E i \in DOMAIN lines(summarized_text) :
          /\ lines(summarized_text)[i] # <<>>
          /\ BlankLine(lines(summarized_text)[i])
    /\ Len(OutputLines) = 2

\* C10 as stated: every non-blank input line lands in exactly one of the
\* three buffers
C10_EveryNonBlankLineLands ==
    pc = "classified" =>
        /\ Len(OutputLines) = Len(NonBlankLines)
        /\ \A x \in Range(NonBlankLines) : CountIn(OutputLines, x) >= 1

\* C10 amended: every input line that is neither blank nor a header lands in
\* exactly one of the three buffers
C10_EveryContentLineLands ==
    pc = "classified" =>
        /\ Len(OutputLines) = Len(ContentLines)
        /\ \A x \in Range(ContentLines) : CountIn(OutputLines, x) >= 1

C10_Witness ==
    /\ pc = "classified"
    /\ Len(NonBlankLines) = 3
    /\ Len(ContentLines) = 2
    /\ Unwrap(payload)[1] # <<>>
    /\ Unwrap(payload)[3] # <<>>

\* a header line that selects Summary: "key points" or "summary", in any case
SummaryHeaderLine(l) ==
    \E h \in {"key points", "summary"} : contains(to_lowercase(l), Chars(h))

\* the input lines before line i that are headers
HeadersBefore(ls, i) == {j \in 1..(i - 1) : HeaderLine(ls[j])}

\* the state line i of ls is read in: that of the most recent header before
\* it, a line with a Summary phrase selecting Summary whatever else it holds;
\* Other (3) when no header precedes
StateAt(ls, i) ==
    IF HeadersBefore(ls, i) = {} THEN 3
    ELSE LET j == CHOOSE k \in HeadersBefore(ls, i) :
                      \A m \in HeadersBefore(ls, i) : m <= k
         IN  IF SummaryHeaderLine(ls[j]) THEN 1 ELSE 2

RECURSIVE RoutedFrom(_, _, _)
\* the content lines of ls from line i on that are read in state b, in order
RoutedFrom(ls, i, b) ==
    IF i > Len(ls) THEN <<>>
    ELSE (IF ContentLine(ls[i]) /\ StateAt(ls, i) = b THEN <<ls[i]>> ELSE <<>>)
             \o RoutedFrom(ls, i + 1, b)

\* a buffer holding the lines ls, each followed by a newline, then trimmed
BufferOf(ls) == trim(JoinLines(ls, <<"\n">>, TRUE))

\* C11: each non-blank non-header line is appended, in input order, to the
\* buffer of the state set by the most recent preceding header line (Summary
\* checked first, otherwise ActionItems), to Other if no header precedes it,
\* and blank lines do not change the state; the text
\* "Summary\nFoo\nAction Items\nBar\nBaz" yields "Foo", "Bar\nBaz" and ""
C11_ClassifierRouting ==
    pc = "classified" =>
        /\ \A b \in 1..3 :
              Unwrap(payload)[b] = BufferOf(RoutedFrom(lines(summarized_text), 1, b))
        /\ summarized_text = TextExample =>
              payload = Some(<< <<"F","o","o">>,
                                <<"B","a","r","\n","B","a","z">>,
                                <<>> >>)

C11_Witness ==
    /\ pc = "classified"
    /\ LET ls == lines(summarized_text)
       IN  /\ Len(ls) = 3
           /\ SummaryHeaderLine(ls[1])
           /\ contains(to_lowercase(ls[1]), Chars("next step"))
           /\ BlankLine(ls[2])
           /\ ContentLine(ls[3])
    /\ Unwrap(payload)[1] # <<>>

---------------------------------------------------------------------------
(* Properties of the output resolution *)

\* where the last component of the path f starts
NameStart(f) ==
    CHOOSE k \in 1..(Len(f) + 1) :
        /\ \A i \in k..Len(f) : f[i] # "/"
        /\ k = 1 \/ f[k - 1] = "/"

\* the path f has the extension e, in any case: its last component is a
\* non-empty stem, a "." and e
HasExtension(f, e) ==
    \E k \in (NameStart(f) + 1)..Len(f) :
        /\ f[k] = "."
        /\ to_lowercase(SubSeq(f, k + 1, Len(f))) = Chars(e)

\* the type the extension of f stands for, None for any other file name
TypeOfExtension(f) ==
    IF HasExtension(f, "md") THEN Some("Markdown")
    ELSE IF HasExtension(f, "txt") THEN Some("Text")
    ELSE IF HasExtension(f, "doc") \/ HasExtension(f, "docx") THEN Some("Word")
    ELSE None

\* the options have been taken apart and the output type resolved
OutputResolved == settings_ok /\ pc \notin {"start", "resolve_output"}

\* C12: with a filename and no explicit type, an extension md, txt, doc or
\* docx (in any case) resolves to Markdown, Text, Word, Word; any other file
\* name resolves to Text with a warning, and the job goes on
C12_TypeInferredFromFilename ==
    (OutputResolved /\ IsSome(output_filename) /\ output_type = None) =>
        /\ IsSome(TypeOfExtension(Unwrap(output_filename))) =>
              /\ actual_output_type = TypeOfExtension(Unwrap(output_filename))
              /\ "warn-cannot-infer" \notin console
        /\ ~IsSome(TypeOfExtension(Unwrap(output_filename))) =>
              /\ actual_output_type = Some("Text")
              /\ "warn-cannot-infer" \in console
        /\ pc # "list" => NumCalls("list_buckets") = 1

C12_Witness ==
    /\ output_filename = Some(<<"o", ".", "D", "O", "C">>)
    /\ output_type = None
    /\ actual_output_type = Some("Word")
    /\ IsSome(written)

\* the output types that are written to a file
FileTypes == {"Text", "Word", "Markdown"}

\* C13: with a filename and an explicit type Text, Word or Markdown the
\* resolved type is the explicit one whatever the extension; a differing
\* extension only draws a warning, and the rendering that runs is that of the
\* explicit type, writing to the given filename
C13_ExplicitTypeWins ==
    (OutputResolved /\ IsSome(output_filename)
        /\ output_type \in {Some(t) : t \in FileTypes}) =>
        /\ actual_output_type = output_type
        /\ (IsSome(TypeOfExtension(Unwrap(output_filename)))
               /\ TypeOfExtension(Unwrap(output_filename)) # output_type) =>
              "warn-extension-mismatch" \in console
        /\ pc # "list" => NumCalls("list_buckets") = 1
        /\ rendered =>
              /\ written = Some([name |-> Unwrap(output_filename),
                                 type |-> Unwrap(output_type)])
              /\ NumCalls("post_notification") = 0
              /\ console \cap {"summary-printed", "transcription-printed"} = {}

C13_Witness ==
    /\ output_filename = Some(<<"o", ".", "m", "d">>)
    /\ output_type = Some("Word")
    /\ "warn-extension-mismatch" \in console
    /\ written = Some([name |-> <<"o", ".", "m", "d">>, type |-> "Word"])
    /\ result = "Ok"

\* the sinks a run has rendered: a file, the terminal, the notification
\* (posted, or skipped for want of an endpoint)
RenderedSinks ==
    (IF IsSome(written) THEN {"File"} ELSE {})
        \cup (IF "transcription-printed" \in console THEN {"Terminal"} ELSE {})
        \cup (IF NumCalls("post_notification") > 0
                 \/ "slack-not-configured" \in console
              THEN {"Notification"} ELSE {})

\* the sink of an output type
SinkOf(type) ==
    CASE type \in FileTypes -> "File"
      [] type = "Terminal"  -> "Terminal"
      [] type = "Slack"     -> "Notification"

\* C14: without a filename an explicit type is the resolved type and a file
\* sink writes summary.txt, summary.docx or summary.md; without a type either
\* the target is the terminal; every successful run renders exactly one sink,
\* the resolved one
C14_DefaultsAndOneSink ==
    /\ (OutputResolved /\ output_filename = None) =>
          /\ IsSome(output_type) => actual_output_type = output_type
          /\ output_type = None => actual_output_type = Some("Terminal")
          /\ IsSome(written) =>
                /\ Unwrap(written).type = Unwrap(actual_output_type)
                /\ Unwrap(written).name =
                      <<"s","u","m","m","a","r","y",".">> \o
                      (CASE Unwrap(written).type = "Text" -> <<"t","x","t">>
                         [] Unwrap(written).type = "Word" -> <<"d","o","c","x">>
                         [] Unwrap(written).type = "Markdown" -> <<"m","d">>)
    /\ result = "Ok" =>
          /\ RenderedSinks = {SinkOf(Unwrap(actual_output_type))}
          /\ NumCalls("write_file") + NumCalls("post_notification") <= 1
          /\ IsSome(written) => Unwrap(written).type = Unwrap(actual_output_type)

C14_Witness ==
    /\ output_filename = None
    /\ output_type = Some("Word")
    /\ written = Some([name |-> <<"s","u","m","m","a","r","y",".","d","o","c","x">>,
                       type |-> "Word"])
    /\ result = "Ok"

---------------------------------------------------------------------------
(* Properties of the regional client *)

\* C15: a bucket whose reported location constraint is the empty string
\* resolves to the default region us-east-1, a non-empty constraint to
\* itself, and the resolved region is never the empty string
C15_RegionOfBucket ==
    /\ IsSome(region) =>
          /\ IsSome(location_resp)
          /\ Unwrap(region) # ""
          /\ Unwrap(location_resp) = "" => Unwrap(region) = "us-east-1"
          /\ Unwrap(location_resp) # "" => region = location_resp
    /\ (IsSome(location_resp) /\ pc # "done") => IsSome(region)

C15_Witness ==
    /\ location_resp = Some("")
    /\ region = Some("us-east-1")
    /\ NumCalls("upload") = 1

\* C16: once the region of the bucket is resolved, every storage request
\* against the bucket (the upload and the delete of the cleanup) goes through
\* the new regional client, never through the client of the discovery
C16_StorageThroughRegionalClient ==
    \A i \in CallsOf("upload") \cup CallsOf("delete") :
        /\ IsSome(region)
        /\ calls[i].client = "regional_s3_client"

---------------------------------------------------------------------------
(* Properties of the notification sink and of the bucket listing *)

\* C17: no delete call follows a failed notification post, even when the
\* delete flag is set
C17_NoDeleteAfterFailedPost ==
    \A i \in CallsOf("post_notification") :
        ~calls[i].ok => \A j \in CallsOf("delete") : j < i

\* C18: with an endpoint configured, a post that fails or returns a
\* non-success status is reported and does not abort the job: the post is
\* called exactly once, the job goes on to the cleanup, and when no delete is
\* asked for it ends with success
C18_FailedPostIsReported ==
    (slack_webhook_endpoint # ""
        /\ \E i \in CallsOf("post_notification") : ~calls[i].ok) =>
        /\ NumCalls("post_notification") = 1
        /\ {"slack-failed", "error-sending-to-slack"} \subseteq console
        /\ "slack-sent" \notin console
        /\ rendered
        /\ pc \in {"cleanup", "done"}
        /\ result \notin {"Ok", "running"} => result = "Err:delete"
        /\ (pc = "done" /\ delete_s3_object = "n") => result = "Ok"

C18_Witness ==
    /\ slack_webhook_endpoint # ""
    /\ NumCalls("post_notification") = 1
    /\ ~calls[Len(calls)].ok
    /\ delete_s3_object = "n"
    /\ result = "Ok"

\* the listing call has been made and has failed
ListingFailed == \E i \in CallsOf("list_buckets") : ~calls[i].ok

\* C19: when list_buckets fails, with or without a configured bucket, the
\* job fails with the bucket-listing error, which is not the "no valid
\* bucket" error; the prompt is never invoked and no later call is made
C19_ListingFailure ==
    ListingFailed =>
        /\ Len(calls) = 1
        /\ bucket_name = ""
        /\ pc \in {"check_configured", "choose", "done"}
        /\ pc = "done" =>
              /\ result = "Err:bucket-list"
              /\ result # "Err:no-valid-bucket"
              /\ "list-error" \in console

C19_Witness ==
    /\ ListingFailed
    /\ s3_bucket_name = "b1"
    /\ "configured-not-found" \in console
    /\ result = "Err:bucket-list"

\* C20: when list_buckets succeeds with an empty listing the job fails with
\* the "no valid bucket" error and no upload is attempted
C20_EmptyListing ==
    (resp.ok /\ resp.val = <<>> /\ pc = "done") =>
        /\ result = "Err:no-valid-bucket"
        /\ NumCalls("upload") = 0

=============================================================================
